---- MODULE Spec2Model ----
(***************************************************************************)
(* A model of the shell-syntax extension (src/src/extension.ts): the       *)
(* dialect classification of a document, the runner of the external        *)
(* checker, the three parsers of the checker's stderr, and the diagnostic  *)
(* collection that the open / save / close handlers keep.                  *)
(*                                                                         *)
(* Text is a sequence of one-character strings, so that the regular        *)
(* expressions of the source are matched character by character.           *)
(***************************************************************************)
EXTENDS Integers, Sequences, FiniteSets, TLC

VARIABLES
    docs,          \* vscode.workspace.textDocuments and the closed documents
    defaultShell,  \* the setting shell-syntax.defaultShell
    activated,     \* whether startLinting has run
    diagnostics,   \* the DiagnosticCollection "bash": uri -> entry
    tasks,         \* per uri, the lint calls suspended at their await, oldest first
    ev             \* the last step taken and what it did

vars == <<docs, defaultShell, activated, diagnostics, tasks, ev>>

----------------------------------------------------------------------------
(* Bounds of the model *)

\* number of documents (uris 1 .. NumDocs)
NumDocs == 2
\* lint calls that may be suspended at the same time
MaxInFlight == 2
\* characters after "#!" in the enumerated first lines
MaxTailLen == 3
\* largest line number the enumerated checker output reports
MaxLineNo == 3
\* lines of the enumerated checker output
MaxOutLines == 2

----------------------------------------------------------------------------
(* Characters and strings *)

Lower == {"a", "b", "c", "d", "e", "f", "g", "h", "i", "j", "k", "l", "m",
          "n", "o", "p", "q", "r", "s", "t", "u", "v", "w", "x", "y", "z"}
Upper == {"A", "B", "C", "D", "E", "F", "G", "H", "I", "J", "K", "L", "M",
          "N", "O", "P", "Q", "R", "S", "T", "U", "V", "W", "X", "Y", "Z"}
Digits == {"0", "1", "2", "3", "4", "5", "6", "7", "8", "9"}

\* \w of a JavaScript regular expression
IsWordChar(c) == c \in Lower \cup Upper \cup Digits \cup {"_"}

\* . of a JavaScript regular expression: any character but a line terminator
IsDotChar(c) == c \notin {"\n", "\r"}

\* \d of a JavaScript regular expression
IsDigit(c) == c \in Digits

\* \b at offset i of s (between s[i] and s[i+1], 0 <= i <= Len(s))
WordBoundary(s, i) ==
    LET before == i >= 1 /\ IsWordChar(s[i])
        after  == i < Len(s) /\ IsWordChar(s[i + 1])
    IN  before # after

AllDot(s, from, to) == \A k \in from..to : IsDotChar(s[k])

\* String.prototype.endsWith
endsWith(s, suffix) ==
    /\ Len(suffix) <= Len(s)
    /\ SubSeq(s, Len(s) - Len(suffix) + 1, Len(s)) = suffix

\* String.prototype.split("\n"): the pieces of text from offset start on,
\* the current piece having reached offset k
RECURSIVE splitFrom(_, _, _)
splitFrom(text, start, k) ==
    IF k > Len(text) THEN <<SubSeq(text, start, Len(text))>>
    ELSE IF text[k] = "\n"
    THEN <<SubSeq(text, start, k - 1)>> \o splitFrom(text, k + 1, k + 1)
    ELSE splitFrom(text, start, k + 1)

split(text) == splitFrom(text, 1, 1)

DigitValue(c) ==
    CASE c = "0" -> 0 [] c = "1" -> 1 [] c = "2" -> 2 [] c = "3" -> 3
      [] c = "4" -> 4 [] c = "5" -> 5 [] c = "6" -> 6 [] c = "7" -> 7
      [] c = "8" -> 8 [] c = "9" -> 9

\* Number.parseInt of a string of decimal digits
RECURSIVE parseInt(_)
parseInt(s) ==
    IF Len(s) = 0 THEN 0
    ELSE 10 * parseInt(SubSeq(s, 1, Len(s) - 1)) + DigitValue(s[Len(s)])

----------------------------------------------------------------------------
(* Documents *)

Uris == 1..NumDocs

zshExtensions ==
    { <<".", "z", "s", "h">>,
      <<".", "z", "s", "h", "r", "c">>,
      <<".", "z", "p", "r", "o", "f", "i", "l", "e">>,
      <<".", "z", "l", "o", "g", "i", "n">>,
      <<".", "z", "l", "o", "g", "o", "u", "t">>,
      <<".", "z", "s", "h", "e", "n", "v">>,
      <<".", "z", "s", "h", "-", "t", "h", "e", "m", "e">> }

\* document.lineAt(0) and getText of its range: the text of the first line
firstLine(document) == document.text[1]

\* /^#!.*\b(zsh).*/
MatchShebangZsh(s) ==
    /\ Len(s) >= 2 /\ s[1] = "#" /\ s[2] = "!"
    /\ \E k \in 3..(Len(s) - 2) :
          /\ s[k] = "z" /\ s[k + 1] = "s" /\ s[k + 2] = "h"
          /\ AllDot(s, 3, k - 1)
          /\ WordBoundary(s, k - 1)

\* /^#!.*(sh)\b.*/: the pattern without the word boundary before sh
MatchShebangSh_NoBoundaryBefore(s) ==
    /\ Len(s) >= 2 /\ s[1] = "#" /\ s[2] = "!"
    /\ \E k \in 3..(Len(s) - 1) :
          /\ s[k] = "s" /\ s[k + 1] = "h"
          /\ AllDot(s, 3, k - 1)
          /\ WordBoundary(s, k + 1)

\* /^#!.*\b(sh)\b.*/
MatchShebangSh(s) ==
    /\ Len(s) >= 2 /\ s[1] = "#" /\ s[2] = "!"
    /\ \E k \in 3..(Len(s) - 1) :
          /\ s[k] = "s" /\ s[k + 1] = "h"
          /\ AllDot(s, 3, k - 1)
          /\ WordBoundary(s, k - 1)
          /\ WordBoundary(s, k + 1)

\* vscode.languages.match({language: "shellscript", scheme: "file"}, document) > 0
languagesMatch(document) ==
    document.languageId = "shellscript" /\ document.scheme = "file"

\* isSavedShellDocument without the test of isDirty
isSavedShellDocument_IgnoringDirty(document) ==
    languagesMatch(document)

isSavedShellDocument(document) ==
    ~document.isDirty /\ languagesMatch(document)

\* isSavedZshDocument without the test of the extensions
isSavedZshDocument_ShebangOnly(document) ==
    IF ~isSavedShellDocument(document) THEN FALSE
    ELSE MatchShebangZsh(firstLine(document))

isSavedZshDocument(document) ==
    IF ~isSavedShellDocument(document) THEN FALSE
    ELSE IF \E extension \in zshExtensions : endsWith(document.fileName, extension)
         THEN TRUE
    ELSE MatchShebangZsh(firstLine(document))

isSavedShebangShDocument(document) ==
    IF ~isSavedShellDocument(document) THEN FALSE
    ELSE MatchShebangSh(firstLine(document))

----------------------------------------------------------------------------
(* The parsers of the checker's stderr *)

\* the three patterns differ in what stands between (.+) and (\d+)
bashPattern == <<":", " ", "l", "i", "n", "e", " ">>
zshPattern == <<":">>
shPattern == <<":", " ">>

\* Number.MAX_VALUE, the end character asked for; any value beyond every line
\* length behaves the same under validateRange
MAX_VALUE == 1000000

NoMatch == [matched |-> FALSE]

\* the end of the longest run of digits of s that starts at k (k - 1 if s[k]
\* is not a digit)
RECURSIVE digitsEnd(_, _)
digitsEnd(s, k) ==
    IF k <= Len(s) /\ IsDigit(s[k]) THEN digitsEnd(s, k + 1) ELSE k - 1

\* /^(.+)<sep>(\d+): (.+)$/ matches s with group 1 ending at p: sep follows,
\* then the digits up to ": ", then a message up to the end of s
MatchAt(s, sep, p) ==
    /\ p + Len(sep) + 4 <= Len(s)
    /\ s[p + 1] = sep[1]
    /\ SubSeq(s, p + 1, p + Len(sep)) = sep
    /\ LET q == digitsEnd(s, p + Len(sep) + 1)
       IN  /\ p + Len(sep) + 1 <= q
           /\ q + 3 <= Len(s)
           /\ s[q + 1] = ":" /\ s[q + 2] = " "

\* (.+) is greedy: the longest group 1, ending at p or before, for which the
\* rest of the pattern still matches (0 if there is none)
RECURSIVE longestPrefix(_, _, _)
longestPrefix(s, sep, p) ==
    IF p < 1 THEN 0
    ELSE IF MatchAt(s, sep, p) THEN p
    ELSE longestPrefix(s, sep, p - 1)

\* line.match(pattern): no group matches a line terminator
match(s, sep) ==
    LET p == longestPrefix(s, sep, Len(s))
    IN  IF p = 0 \/ ~AllDot(s, 1, Len(s)) THEN NoMatch
        ELSE LET q == digitsEnd(s, p + Len(sep) + 1)
             IN  [matched |-> TRUE,
                  g1 |-> SubSeq(s, 1, p),
                  g2 |-> SubSeq(s, p + Len(sep) + 1, q),
                  g3 |-> SubSeq(s, q + 3, Len(s))]

\* the matches of pattern in lines k .. Len(lines), in the order of the lines
RECURSIVE matchesFrom(_, _, _)
matchesFrom(pattern, lines, k) ==
    IF k > Len(lines) THEN <<>>
    ELSE LET m == match(lines[k], pattern)
         IN  IF m.matched THEN <<m>> \o matchesFrom(pattern, lines, k + 1)
             ELSE matchesFrom(pattern, lines, k + 1)

getMatches(pattern, text) == matchesFrom(pattern, split(text), 1)

\* new Range(startLine, startCharacter, endLine, endCharacter): the Position
\* constructor of the editor rejects a negative line or character
Range(startLine, startCharacter, endLine, endCharacter) ==
    IF startLine < 0 \/ startCharacter < 0 \/ endLine < 0 \/ endCharacter < 0
    THEN [illegalArgument |-> TRUE]
    ELSE [illegalArgument |-> FALSE,
          start |-> [line |-> startLine, character |-> startCharacter],
          end |-> [line |-> endLine, character |-> endCharacter]]

\* document.validatePosition: a line past the end becomes the end of the last
\* line, a character past the end of its line becomes the end of that line
validatePosition(document, position) ==
    LET lineCount == Len(document.text)
    IN  IF position.line >= lineCount
        THEN [line |-> lineCount - 1,
              character |-> Len(document.text[lineCount])]
        ELSE IF position.character > Len(document.text[position.line + 1])
        THEN [line |-> position.line,
              character |-> Len(document.text[position.line + 1])]
        ELSE position

\* document.validateRange
validateRange(document, range) ==
    [start |-> validatePosition(document, range.start),
     end |-> validatePosition(document, range.end)]

\* the Diagnostic of one match, or the exception of its Range
toDiagnostic(document, m, source) ==
    LET lineNumber == parseInt(m.g2)
        range == Range(lineNumber - 1, 0, lineNumber - 1, MAX_VALUE)
    IN  IF range.illegalArgument THEN [threw |-> TRUE]
        ELSE [threw |-> FALSE,
              value |-> [range |-> validateRange(document, range),
                         message |-> m.g3,
                         source |-> source]]

\* the loop shared by the three parsers, from match k on: one Diagnostic per
\* match, in order, or the exception of the first Range that cannot be
\* constructed
RECURSIVE pushFrom(_, _, _, _)
pushFrom(document, matches, source, k) ==
    IF k > Len(matches) THEN [threw |-> FALSE, value |-> <<>>]
    ELSE LET diagnostic == toDiagnostic(document, matches[k], source)
         IN  IF diagnostic.threw THEN [threw |-> TRUE, value |-> <<>>]
             ELSE LET rest == pushFrom(document, matches, source, k + 1)
                  IN  IF rest.threw THEN rest
                      ELSE [threw |-> FALSE,
                            value |-> <<diagnostic.value>> \o rest.value]

outputToDiagnostics(document, output, pattern, source) ==
    pushFrom(document, getMatches(pattern, output), source, 1)

bashOutputToDiagnostics(document, output) ==
    outputToDiagnostics(document, output, bashPattern, "bash")

zshOutputToDiagnostics(document, output) ==
    outputToDiagnostics(document, output, zshPattern, "zsh")

shOutputToDiagnostics(document, output) ==
    outputToDiagnostics(document, output, shPattern, "sh")

----------------------------------------------------------------------------
(* The process runner *)

\* the error argument of the execFile callback, by the fields the code reads:
\* the type of errno, and the type and value of code
NoError == [isNull |-> TRUE]
\* the checker ran and exited with a non-zero code
ExitError == [isNull |-> FALSE, errno |-> "undefined", codeType |-> "number", code |-> 2]
\* the checker could not be started: errno is a string in the Node.js the
\* extension was written for, a number (with a string code) in later ones
SpawnErrorLegacy == [isNull |-> FALSE, errno |-> "string", codeType |-> "string", code |-> 0]
SpawnError == [isNull |-> FALSE, errno |-> "number", codeType |-> "string", code |-> 0]
\* the checker was killed by a signal: code is null
KilledError == [isNull |-> FALSE, errno |-> "undefined", codeType |-> "null", code |-> 0]

LaunchFailures == {SpawnErrorLegacy, SpawnError}
Errors == {NoError, ExitError, KilledError} \cup LaunchFailures

isSystemError(error) ==
    error.errno # "undefined" /\ error.errno = "string"

\* code > 0 is false for a string code (NaN) and for null
isProcessError(error) ==
    /\ ~isSystemError(error)
    /\ error.codeType # "undefined"
    /\ error.codeType = "number" /\ error.code > 0

\* an execFile callback that resolves whatever the error is
runInWorkspace_AlwaysResolving(error, stdout, stderr) ==
    [settled |-> "resolved", logged |-> ~error.isNull,
     result |-> [stdout |-> stdout, stderr |-> stderr,
                 exitCode |-> IF ~error.isNull THEN error.code ELSE 0]]

\* an execFile callback that rejects whenever there is an error, a non-zero
\* exit code included
runInWorkspace_RejectingEveryError(error, stdout, stderr) ==
    IF ~error.isNull
    THEN [settled |-> "rejected", logged |-> TRUE]
    ELSE [settled |-> "resolved", logged |-> FALSE,
          result |-> [stdout |-> stdout, stderr |-> stderr, exitCode |-> 0]]

\* the execFile callback of runInWorkspace: how the promise is settled
runInWorkspace(error, stdout, stderr) ==
    IF ~error.isNull /\ ~isProcessError(error)
    THEN [settled |-> "rejected", logged |-> TRUE]
    ELSE [settled |-> "resolved", logged |-> FALSE,
          result |-> [stdout |-> stdout, stderr |-> stderr,
                      exitCode |-> IF ~error.isNull THEN error.code ELSE 0]]

----------------------------------------------------------------------------
(* The diagnostic session *)

\* diagnostics has no entry for the uri
NoEntry == [absent |-> TRUE]

\* an entry of the collection holding the array d
Entry(d) == [absent |-> FALSE, items |-> d]

\* a set that appends d to the array of the entry instead of replacing it
diagnosticsSet_Appending(collection, uri, d) ==
    [collection EXCEPT
        ![uri] = IF @ = NoEntry THEN Entry(d) ELSE Entry(@.items \o d)]

\* a set that leaves an entry that exists as it is
diagnosticsSet_KeepingExisting(collection, uri, d) ==
    [collection EXCEPT ![uri] = IF @ = NoEntry THEN Entry(d) ELSE @]

\* a set that clears the collection first
diagnosticsSet_Clearing(collection, uri, d) ==
    [u \in DOMAIN collection |-> IF u = uri THEN Entry(d) ELSE NoEntry]

\* diagnostics.set(uri, d)
diagnosticsSet(collection, uri, d) ==
    [collection EXCEPT ![uri] = Entry(d)]

\* diagnostics.delete(uri)
diagnosticsDelete(collection, uri) == [collection EXCEPT ![uri] = NoEntry]

\* lint whose last branch is a plain else: bash for every document that is
\* neither zsh nor sh
lint_UnguardedFallback(uri, document) ==
    IF isSavedZshDocument(document)
    THEN <<[uri |-> uri, argv |-> <<"zsh", "-n", document.fileName>>,
            stdin |-> FALSE, branch |-> "zsh"]>>
    ELSE IF isSavedShebangShDocument(document)
    THEN <<[uri |-> uri, argv |-> <<"sh", "-n", document.fileName>>,
            stdin |-> FALSE, branch |-> "sh"]>>
    ELSE <<[uri |-> uri, argv |-> <<"bash", "-n", document.fileName>>,
            stdin |-> FALSE, branch |-> "bash"]>>

\* lint up to its await: the checker it starts for the document, if any
lint(uri, document) ==
    IF isSavedZshDocument(document)
    THEN <<[uri |-> uri, argv |-> <<"zsh", "-n", document.fileName>>,
            stdin |-> FALSE, branch |-> "zsh"]>>
    ELSE IF isSavedShebangShDocument(document)
    THEN <<[uri |-> uri, argv |-> <<"sh", "-n", document.fileName>>,
            stdin |-> FALSE, branch |-> "sh"]>>
    ELSE IF isSavedShellDocument(document)
    THEN <<[uri |-> uri, argv |-> <<"bash", "-n", document.fileName>>,
            stdin |-> FALSE, branch |-> "bash"]>>
    ELSE <<>>

\* lint that parses the output of zsh with the parser of bash
parse_ZshAsBash(task, document, stderr) ==
    CASE task.branch = "zsh" -> bashOutputToDiagnostics(document, stderr)
      [] task.branch = "sh" -> shOutputToDiagnostics(document, stderr)
      [] task.branch = "bash" -> bashOutputToDiagnostics(document, stderr)

\* lint after its await: the parser of the branch that started the checker
parse(task, document, stderr) ==
    CASE task.branch = "zsh" -> zshOutputToDiagnostics(document, stderr)
      [] task.branch = "sh" -> shOutputToDiagnostics(document, stderr)
      [] task.branch = "bash" -> bashOutputToDiagnostics(document, stderr)

\* the number of lint calls suspended at their await
RECURSIVE InFlightFrom(_, _)
InFlightFrom(T, k) ==
    IF k > NumDocs THEN 0 ELSE Len(T[k]) + InFlightFrom(T, k + 1)

InFlight(T) == InFlightFrom(T, 1)

\* a sweep that stops after the first open document
forEachLint_FirstOnly(D) ==
    [d \in Uris |->
        IF D[d].open /\ (\A e \in 1..(d - 1) : ~D[e].open)
        THEN lint(d, D[d])
        ELSE <<>>]

\* vscode.workspace.textDocuments.forEach(lint): the checkers started, by uri
forEachLint(D) ==
    [d \in Uris |-> IF D[d].open THEN lint(d, D[d]) ELSE <<>>]

\* startLinting: the collection is created, the handlers are registered and
\* every document that is already open is linted
startLinting ==
    /\ ~activated
    /\ activated' = TRUE
    /\ tasks' = [d \in Uris |-> tasks[d] \o forEachLint(docs)[d]]
    /\ ev' = [kind |-> "activate",
              uris |-> {d \in Uris : docs[d].open},
              started |-> forEachLint(docs)]
    /\ UNCHANGED <<docs, defaultShell, diagnostics>>

\* what a handler that lints one document has started, by uri
StartedBy(d, document) ==
    [u \in Uris |-> IF u = d THEN lint(d, document) ELSE <<>>]

\* the editor opens a document and fires onDidOpenTextDocument: lint
onDidOpenTextDocument(d) ==
    /\ activated
    /\ ~docs[d].open
    /\ \E dirty \in BOOLEAN :
          /\ docs' = [docs EXCEPT ![d].open = TRUE, ![d].isDirty = dirty]
          /\ InFlight(tasks) + Len(lint(d, docs'[d])) <= MaxInFlight
          /\ tasks' = [tasks EXCEPT ![d] = @ \o lint(d, docs'[d])]
          /\ ev' = [kind |-> "open", uris |-> {d}, started |-> StartedBy(d, docs'[d])]
    /\ UNCHANGED <<defaultShell, activated, diagnostics>>

\* a handler that marks the document saved and does not lint
onDidSaveTextDocument_NotLinting(d) ==
    /\ activated
    /\ docs[d].open
    /\ docs' = [docs EXCEPT ![d].isDirty = FALSE]
    /\ ev' = [kind |-> "save", uris |-> {d}, started |-> [u \in Uris |-> <<>>]]
    /\ UNCHANGED <<defaultShell, activated, diagnostics, tasks>>

\* the editor writes a document to disk and fires onDidSaveTextDocument: lint
onDidSaveTextDocument(d) ==
    /\ activated
    /\ docs[d].open
    /\ docs' = [docs EXCEPT ![d].isDirty = FALSE]
    /\ InFlight(tasks) + Len(lint(d, docs'[d])) <= MaxInFlight
    /\ tasks' = [tasks EXCEPT ![d] = @ \o lint(d, docs'[d])]
    /\ ev' = [kind |-> "save", uris |-> {d}, started |-> StartedBy(d, docs'[d])]
    /\ UNCHANGED <<defaultShell, activated, diagnostics>>

\* the editor closes a document and fires onDidCloseTextDocument
onDidCloseTextDocument(d) ==
    /\ activated
    /\ docs[d].open
    /\ docs' = [docs EXCEPT ![d].open = FALSE, ![d].isDirty = FALSE]
    /\ diagnostics' = diagnosticsDelete(diagnostics, d)
    /\ ev' = [kind |-> "close", uris |-> {d}, started |-> [u \in Uris |-> <<>>]]
    /\ UNCHANGED <<defaultShell, activated, tasks>>

\* the user edits an open document: it becomes dirty; no handler is registered
edit(d) ==
    /\ activated
    /\ docs[d].open
    /\ ~docs[d].isDirty
    /\ docs' = [docs EXCEPT ![d].isDirty = TRUE]
    /\ ev' = [kind |-> "edit", uris |-> {d}, started |-> [u \in Uris |-> <<>>]]
    /\ UNCHANGED <<defaultShell, activated, diagnostics, tasks>>

RemoveAt(seq, i) == SubSeq(seq, 1, i - 1) \o SubSeq(seq, i + 1, Len(seq))

\* history: the step before did not end a lint call of the same document
\* that had set the entry while another one was suspended
NoCheck == [lint |-> "none"]

\* history: whether the step before ended a lint call of document u that set
\* the entry while another one was suspended, and its index among the calls
\* then suspended (oldest first)
overlapEnded(u) ==
    IF ev.kind = "exit" /\ ev.uris = {u} /\ ev.of >= 2 /\ ev.lint = "fulfilled"
    THEN [lint |-> ev.lint, index |-> ev.index]
    ELSE NoCheck

\* the checker of the i-th suspended lint of document u ends: the execFile
\* callback settles the promise and lint resumes, parses stderr and sets the
\* entry, or is rejected by the rejected promise or by an exception of the
\* parser
execFileCallback(u, i, error, stderr) ==
    LET task == tasks[u][i]
        outcome == runInWorkspace(error, <<>>, stderr)
        d == parse(task, docs[task.uri], outcome.result.stderr)
        lintEnds == IF outcome.settled = "rejected" THEN "rejected"
                    ELSE IF d.threw THEN "rejected"
                    ELSE "fulfilled"
    IN  /\ tasks' = [tasks EXCEPT ![u] = RemoveAt(@, i)]
        /\ diagnostics' = IF lintEnds = "fulfilled"
                          THEN diagnosticsSet(diagnostics, task.uri, d.value)
                          ELSE diagnostics
        /\ ev' = [kind |-> "exit", uris |-> {task.uri},
                  started |-> [x \in Uris |-> <<>>],
                  task |-> task, error |-> error, stderr |-> stderr,
                  before |-> diagnostics[task.uri],
                  settled |-> outcome.settled, logged |-> outcome.logged,
                  lint |-> lintEnds,
                  index |-> i, of |-> Len(tasks[u]), prev |-> overlapEnded(u)]
        /\ UNCHANGED <<docs, defaultShell, activated>>

----------------------------------------------------------------------------
(* The editor's documents and the checker's output in the session model *)

NL == <<"\n">>

\* one line of checker output: <prefix><sep><digits>: <message>
ErrLine(sep, digits, message) ==
    <<"f">> \o sep \o digits \o <<":", " ">> \o message

\* the pattern of the parser that a branch of lint applies
patternOf(branch) ==
    CASE branch = "zsh" -> zshPattern
      [] branch = "sh" -> shPattern
      [] branch = "bash" -> bashPattern

Noise == <<"n", "o", "i", "s", "e">>

\* what the checker of a branch may write to stderr, in its own format:
\* nothing, chatter and an error at line 1, an error at line 0
Stderrs(branch) ==
    { <<>>,
      Noise \o NL \o ErrLine(patternOf(branch), <<"1">>, <<"e">>),
      ErrLine(patternOf(branch), <<"0">>, <<"e">>) }

\* how a checker may end: exit code 0 with or without output, a non-zero
\* exit code with output, a signal, or no start at all (and then no output)
Exits(branch) ==
    ({NoError, ExitError} \X Stderrs(branch))
        \cup ((LaunchFailures \cup {KilledError}) \X {<<>>})

Shebang(tail) == <<"#", "!">> \o tail

\* the documents of the workspace, by uri
DocProfile(d) ==
    LET k == (d - 1) % 4
    IN  CASE k = 0 ->
               [fileName |-> <<"/", "w", "/", "a", ".", "s", "h">>,
                languageId |-> "shellscript", scheme |-> "file",
                text |-> << <<"e", "c", "h", "o", " ", "h", "i">>, <<"f", "i">> >>,
                open |-> FALSE, isDirty |-> FALSE]
          [] k = 1 ->
               [fileName |-> <<"/", "w", "/", ".", "z", "s", "h", "r", "c">>,
                languageId |-> "shellscript", scheme |-> "file",
                text |-> << Shebang(<<"/", "b", "i", "n", "/", "s", "h">>), <<"f", "i">> >>,
                open |-> FALSE, isDirty |-> FALSE]
          [] k = 2 ->
               [fileName |-> <<"/", "w", "/", "n", "o", "t", "e", "s", ".", "t", "x", "t">>,
                languageId |-> "plaintext", scheme |-> "file",
                text |-> << <<"f", "i">> >>,
                open |-> FALSE, isDirty |-> FALSE]
          [] k = 3 ->
               [fileName |-> <<"/", "w", "/", "r", "u", "n">>,
                languageId |-> "shellscript", scheme |-> "file",
                text |-> << Shebang(<<"/", "b", "i", "n", "/", "s", "h">>), <<"f", "i">> >>,
                open |-> FALSE, isDirty |-> FALSE]

\* before activation: any of the documents may be open, clean or dirty, and
\* any of them may have the language mode Plain Text
Init ==
    /\ \E o \in [Uris -> BOOLEAN], y \in [Uris -> BOOLEAN], p \in [Uris -> BOOLEAN] :
          /\ docs = [d \in Uris |->
                        [DocProfile(d) EXCEPT
                            !.open = o[d], !.isDirty = o[d] /\ y[d],
                            !.languageId = IF p[d] THEN "plaintext" ELSE @]]
          /\ InFlight(forEachLint(docs)) <= MaxInFlight
    /\ defaultShell = "bash"
    /\ activated = FALSE
    /\ diagnostics = [d \in Uris |-> NoEntry]
    /\ tasks = [d \in Uris |-> <<>>]
    /\ ev = [kind |-> "init", uris |-> {}, started |-> [d \in Uris |-> <<>>]]

Next ==
    \/ startLinting
    \/ \E d \in Uris : onDidOpenTextDocument(d)
    \/ \E d \in Uris : onDidSaveTextDocument(d)
    \/ \E d \in Uris : onDidCloseTextDocument(d)
    \/ \E d \in Uris : edit(d)
    \/ \E u \in Uris : \E i \in 1..Len(tasks[u]) : \E x \in Exits(tasks[u][i].branch) :
          execFileCallback(u, i, x[1], x[2])

Spec == Init /\ [][Next]_vars

----------------------------------------------------------------------------
(* The classifier over enumerated documents: one document, of any path,   *)
(* language, scheme, first line and setting, is opened                    *)

DefaultShells == {"bash", "zsh", "sh"}

TailChars == {"/", "s", "h", "z", "a"}

\* the first lines enumerated: "#!" followed by every string of at most
\* MaxTailLen characters, and the interpreter lines met in practice
FirstLines ==
    {Shebang(t) : t \in UNION {[1..n -> TailChars] : n \in 0..MaxTailLen}}
        \cup { Shebang(<<"/", "b", "i", "n", "/", "s", "h">>),
               Shebang(<<"/", "b", "i", "n", "/", "b", "a", "s", "h">>),
               Shebang(<<"/", "b", "i", "n", "/", "d", "a", "s", "h">>),
               Shebang(<<"/", "b", "i", "n", "/", "z", "s", "h">>),
               Shebang(<<"/", "b", "i", "n", "/", "z", "s", "h", "f", "o", "o">>),
               Shebang(<<"/", "u", "s", "r", "/", "b", "i", "n", "/", "e", "n", "v", " ", "s", "h">>),
               Shebang(<<"/", "b", "i", "n", "/", "s", "h", " ", "-", "e">>),
               Shebang(<<"/", "b", "i", "n", "/", "m", "y", "-", "s", "h">>),
               <<" ", "#", "!", "/", "b", "i", "n", "/", "s", "h">>,
               <<"e", "c", "h", "o", " ", "h", "i">>,
               <<>> }

\* the lines after the first: none, or a line that looks like an interpreter
\* line
RestLines == { <<>>, << Shebang(<<"/", "b", "i", "n", "/", "s", "h">>) >>,
               << Shebang(<<"/", "b", "i", "n", "/", "z", "s", "h">>) >> }

FileNames ==
    {<<"/", "w", "/", "x">> \o e : e \in zshExtensions}
        \cup { <<"/", "w", "/", "a", ".", "s", "h">>,
               <<"/", "w", "/", "z", "s", "h", "r", "c">> }

\* the documents enumerated, not yet open
Documents ==
    {[fileName |-> f, languageId |-> l, scheme |-> sc, text |-> <<first>> \o rest,
      open |-> FALSE, isDirty |-> FALSE] :
        f \in FileNames, l \in {"shellscript", "plaintext"},
        sc \in {"file", "git"}, first \in FirstLines, rest \in RestLines}

InitClassify ==
    /\ \E document \in Documents :
          docs = [d \in Uris |-> IF d = 1 THEN document ELSE DocProfile(d)]
    /\ defaultShell \in DefaultShells
    /\ activated = TRUE
    /\ diagnostics = [d \in Uris |-> NoEntry]
    /\ tasks = [d \in Uris |-> <<>>]
    /\ ev = [kind |-> "init", uris |-> {}, started |-> [d \in Uris |-> <<>>]]

NextClassify == onDidOpenTextDocument(1)

SpecClassify == InitClassify /\ [][NextClassify]_vars

\* the same, for the documents that are files on disk
InitOnDisk == InitClassify /\ docs[1].scheme = "file"

SpecOnDisk == InitOnDisk /\ [][NextClassify]_vars

----------------------------------------------------------------------------
(* The parsers over enumerated checker output: one checker is running for *)
(* a document of each branch of lint, and ends                            *)

\* the decimal digits of n
RECURSIVE digitsOf(_)
digitsOf(n) ==
    LET last == <<CHOOSE c \in Digits : DigitValue(c) = n % 10>>
    IN  IF n < 10 THEN last ELSE digitsOf(n \div 10) \o last

\* messages: a plain one, and one that itself holds a number and ": "
Messages == { <<"e">>, <<"2", ":", " ", "e">> }

\* the lines enumerated: an error in each of the three formats at the lines
\* 0 .. MaxLineNo and at line 12, chatter, and the empty line
OutLines ==
    {ErrLine(sep, digitsOf(n), m) :
        sep \in {bashPattern, zshPattern, shPattern},
        n \in (0..MaxLineNo) \cup {12}, m \in Messages}
        \cup {Noise, <<>>}

\* the lines of a text, joined by "\n"
RECURSIVE join(_)
join(lines) ==
    IF Len(lines) = 1 THEN lines[1]
    ELSE lines[1] \o NL \o join(Tail(lines))

\* the stderr texts enumerated: at most MaxOutLines lines
OutTexts ==
    {join(ls) : ls \in UNION {[1..n -> OutLines] : n \in 1..MaxOutLines}}

InitNormalize ==
    /\ \E k \in {1, 2, 4} :
          docs = [d \in Uris |-> IF d = 1 THEN [DocProfile(k) EXCEPT !.open = TRUE]
                                 ELSE DocProfile(d)]
    /\ defaultShell = "bash"
    /\ activated = TRUE
    /\ diagnostics = [d \in Uris |-> NoEntry]
    /\ tasks = StartedBy(1, docs[1])
    /\ ev = [kind |-> "open", uris |-> {1}, started |-> StartedBy(1, docs[1])]

NextNormalize ==
    \E error \in {NoError, ExitError} : \E stderr \in OutTexts :
        Len(tasks[1]) > 0 /\ execFileCallback(1, 1, error, stderr)

SpecNormalize == InitNormalize /\ [][NextNormalize]_vars

----------------------------------------------------------------------------
(* The session after a launch failure: one clean shell script was open at *)
(* activation and its checker could not be started                        *)

\* the state that startLinting and the callback of a checker that could not
\* be started leave, for document d open and clean and the others closed
InitRecover ==
    \E d \in Uris, error \in LaunchFailures :
        /\ docs = [u \in Uris |-> [DocProfile(u) EXCEPT !.open = (u = d)]]
        /\ lint(d, docs[d]) # <<>>
        /\ defaultShell = "bash"
        /\ activated = TRUE
        /\ diagnostics = [u \in Uris |-> NoEntry]
        /\ tasks = [u \in Uris |-> <<>>]
        /\ ev = [kind |-> "exit", uris |-> {d},
                 started |-> [x \in Uris |-> <<>>],
                 task |-> lint(d, docs[d])[1], error |-> error, stderr |-> <<>>,
                 before |-> NoEntry,
                 settled |-> "rejected", logged |-> TRUE, lint |-> "rejected",
                 index |-> 1, of |-> 1, prev |-> NoCheck]

\* a checker of document u ends
checkerEnds(u) ==
    \E i \in 1..Len(tasks[u]) : \E x \in Exits(tasks[u][i].branch) :
        execFileCallback(u, i, x[1], x[2])

NextRecover ==
    \/ \E d \in Uris : onDidOpenTextDocument(d)
    \/ \E d \in Uris : onDidSaveTextDocument(d)
    \/ \E d \in Uris : onDidCloseTextDocument(d)
    \/ \E d \in Uris : edit(d)
    \/ \E u \in Uris : checkerEnds(u)

\* every checker that was started ends, and its callback is called
SpecRecover ==
    InitRecover /\ [][NextRecover]_vars /\ \A u \in Uris : WF_vars(checkerEnds(u))

----------------------------------------------------------------------------
(* Properties *)

\* the steps that run lint: the sweep of startLinting and the two handlers
LintKinds == {"activate", "open", "save"}

\* the checker that the last step started for document d ("none" if none)
Checked(d) ==
    IF ev.started[d] = <<>> THEN "none" ELSE ev.started[d][1].argv[1]

\* the diagnostics that the parser of a task's branch makes of stderr
DiagnosticSetOf(task, stderr) == parse(task, docs[task.uri], stderr).value

\* C1: an open event, a save event or a visit of the startup sweep of a
\* document that is dirty at that moment starts no checker
C1_DirtyNeverChecked ==
    ev.kind \in LintKinds =>
        \A d \in ev.uris : docs[d].isDirty => ev.started[d] = <<>>

\* C1: a dirty shell script on disk has been visited and nothing was started
C1_Witness ==
    /\ ev.kind \in LintKinds
    /\ \E d \in ev.uris :
          docs[d].isDirty /\ languagesMatch(docs[d]) /\ ev.started[d] = <<>>

\* C2: a document that has been closed, and not opened again, has no entry,
\* also after a checker started before the close has ended
C2_ClosedHasNoEntry ==
    \A d \in Uris : ~docs[d].open => diagnostics[d] = NoEntry

\* C3: when a check ends successfully the entry of its document is exactly
\* the diagnostics of that check, whatever the entry held before
C3_SetReplaces ==
    (ev.kind = "exit" /\ ev.lint = "fulfilled") =>
        \A d \in ev.uris :
            diagnostics[d] = Entry(DiagnosticSetOf(ev.task, ev.stderr))

\* C3: a check that found nothing has ended for a document whose entry held
\* diagnostics, and the entry is now empty
C3_Witness ==
    /\ ev.kind = "exit" /\ ev.lint = "fulfilled"
    /\ ev.before # NoEntry /\ ev.before.items # <<>>
    /\ \E d \in ev.uris : diagnostics[d] = Entry(<<>>)

\* C4: a checker that cannot be launched leaves every entry as it was
C4_LaunchFailureKeepsEntries ==
    [][(ev'.kind = "exit" /\ ev'.error \in LaunchFailures)
          => diagnostics' = diagnostics]_vars

\* C4: a checker could not be launched for a document whose entry holds
\* diagnostics, and the entry still holds them
C4_Witness ==
    /\ ev.kind = "exit" /\ ev.error \in LaunchFailures
    /\ \E d \in ev.uris :
          /\ diagnostics[d] # NoEntry
          /\ diagnostics[d].items # <<>>
          /\ diagnostics[d] = ev.before

\* the document's path ends with one of the zsh extensions
HasZshExtension(document) ==
    \E extension \in zshExtensions : endsWith(document.fileName, extension)

\* s starts with "#!"
StartsWithShebang(s) == Len(s) >= 2 /\ s[1] = "#" /\ s[2] = "!"

\* s contains w as a whole word: an occurrence of w with no word character
\* right before it and none right after it
ContainsWord(s, w) ==
    \E k \in 1..(Len(s) - Len(w) + 1) :
        /\ SubSeq(s, k, k + Len(w) - 1) = w
        /\ (k = 1 \/ ~IsWordChar(s[k - 1]))
        /\ (k + Len(w) > Len(s) \/ ~IsWordChar(s[k + Len(w)]))

\* a zsh rule matches the document: its extension or its first line
ZshRule(document) ==
    HasZshExtension(document) \/ MatchShebangZsh(firstLine(document))

\* a clean document with the shell-script language tag
CleanShellScript(document) ==
    ~document.isDirty /\ document.languageId = "shellscript"

\* C5: a clean shell-script document that matches neither zsh rule nor the
\* sh shebang rule is checked with the configured default dialect
C5_FallbackIsConfiguredDefault ==
    ev.kind \in LintKinds =>
        \A d \in ev.uris :
            (/\ CleanShellScript(docs[d])
             /\ ~ZshRule(docs[d])
             /\ ~MatchShebangSh(firstLine(docs[d])))
                => Checked(d) = defaultShell

\* C6, as claimed: every clean shell-script document whose path ends with a
\* zsh extension is checked with zsh
C6_ZshByExtension_AsClaimed ==
    ev.kind \in LintKinds =>
        \A d \in ev.uris :
            (CleanShellScript(docs[d]) /\ HasZshExtension(docs[d]))
                => Checked(d) = "zsh"

\* C6: every clean shell-script document that is a file on disk and whose
\* path ends with a zsh extension is checked with zsh, whatever its first
\* line and the configured default
C6_ZshByExtension ==
    ev.kind \in LintKinds =>
        \A d \in ev.uris :
            (/\ CleanShellScript(docs[d])
             /\ docs[d].scheme = "file"
             /\ HasZshExtension(docs[d]))
                => Checked(d) = "zsh"

\* C6: a clean .zshrc on disk that starts with #!/bin/sh has been opened
\* with the default set to sh, and zsh was started
C6_Witness ==
    /\ ev.kind \in LintKinds
    /\ defaultShell = "sh"
    /\ \E d \in ev.uris :
          /\ CleanShellScript(docs[d]) /\ docs[d].scheme = "file"
          /\ endsWith(docs[d].fileName, <<".", "z", "s", "h", "r", "c">>)
          /\ firstLine(docs[d]) = Shebang(<<"/", "b", "i", "n", "/", "s", "h">>)
          /\ Checked(d) = "zsh"

\* the result of lint does not depend on the lines after the first
OnlyFirstLineCounts(d) ==
    \A rest \in RestLines :
        lint(d, [docs[d] EXCEPT !.text = <<firstLine(docs[d])>> \o rest])
            = lint(d, docs[d])

IsErrorLine(line, sep, p, q) ==
    /\ 1 <= p /\ p + Len(sep) + 1 <= q /\ q + 3 <= Len(line)
    /\ SubSeq(line, p + 1, p + Len(sep)) = sep
    /\ \A k \in (p + Len(sep) + 1)..q : IsDigit(line[k])
    /\ line[q + 1] = ":" /\ line[q + 2] = " "
    /\ \A k \in 1..Len(line) : IsDotChar(line[k])

\* the line matches the grammar whose separator is sep
MatchesGrammar(line, sep) ==
    \E p \in 1..Len(line), q \in 1..Len(line) : IsErrorLine(line, sep, p, q)

\* the lines of a text that match the grammar, in order
MatchingLines(text, sep) ==
    SelectSeq(split(text), LAMBDA line : MatchesGrammar(line, sep))

\* the diagnostic is the one of the line: the message and the line number
\* of one reading of the line as <prefix><sep><N>: <msg>, N - 1 as its line
\* when N is a line of the document, and the dialect as its source
IsDiagnosticOf(diagnostic, line, sep, dialect, lineCount) ==
    /\ diagnostic.source = dialect
    /\ \E p \in 1..Len(line), q \in 1..Len(line) :
          /\ IsErrorLine(line, sep, p, q)
          /\ diagnostic.message = SubSeq(line, q + 3, Len(line))
          /\ LET N == parseInt(SubSeq(line, p + Len(sep) + 1, q))
             IN  N \in 1..lineCount =>
                    /\ diagnostic.range.start.line = N - 1
                    /\ diagnostic.range.end.line = N - 1

\* C8: whatever the checker writes to stderr, the entry set from it holds, in
\* the order of the lines, one diagnostic for each line that matches the
\* grammar of the dialect and nothing else
C8_OneDiagnosticPerMatchingLine ==
    (ev.kind = "exit" /\ ev.settled = "resolved") =>
        \A d \in ev.uris :
            LET dialect == ev.task.argv[1]
                sep == patternOf(dialect)
                lines == MatchingLines(ev.stderr, sep)
            IN  /\ diagnostics[d] # NoEntry
                /\ Len(diagnostics[d].items) = Len(lines)
                /\ \A k \in 1..Len(lines) :
                      IsDiagnosticOf(diagnostics[d].items[k], lines[k], sep,
                                     dialect, Len(docs[d].text))

\* C9: whatever line number the checker reports, the parser raises no error
\* and every diagnostic lies on a line of the document
C9_LineNumbersClamped ==
    (ev.kind = "exit" /\ ev.settled = "resolved") =>
        /\ ev.lint = "fulfilled"
        /\ \A d \in ev.uris :
              /\ diagnostics[d] # NoEntry
              /\ \A k \in 1..Len(diagnostics[d].items) :
                    diagnostics[d].items[k].range.start.line
                        \in 0..(Len(docs[d].text) - 1)


\* C10: when the checker cannot be launched, lint does not end rejected: the
\* failure is logged and goes no further
C10_LaunchFailureContained ==
    (ev.kind = "exit" /\ ev.error \in LaunchFailures) =>
        ev.logged /\ ev.lint # "rejected"

\* C11: a clean shell-script document without a zsh extension is checked
\* with zsh only if its first line starts with #! and contains zsh as a whole
\* word, with no word character right before it and none right after it
C11_ZshShebangWholeWord ==
    ev.kind \in LintKinds =>
        \A d \in ev.uris :
            (/\ CleanShellScript(docs[d])
             /\ ~HasZshExtension(docs[d])
             /\ Checked(d) = "zsh")
                => /\ StartsWithShebang(firstLine(docs[d]))
                   /\ ContainsWord(firstLine(docs[d]), <<"z", "s", "h">>)

\* the three grammars, by what stands between the prefix and the line number
Grammars == {bashPattern, zshPattern, shPattern}

\* C12: no line that the checker writes in the format of one grammar
\* (<prefix>: line <N>: <msg>, <prefix>:<N>: <msg> or <prefix>: <N>: <msg>)
\* is matched by the pattern of another grammar
C12_GrammarsExclusive ==
    ev.kind = "exit" =>
        \A k \in 1..Len(split(ev.stderr)) :
            \A own \in Grammars : \A other \in Grammars \ {own} :
                MatchesGrammar(split(ev.stderr)[k], own)
                    => ~match(split(ev.stderr)[k], other).matched

\* a clean shell script on disk: the documents for which lint finds a dialect
Classifiable(document) ==
    CleanShellScript(document) /\ document.scheme = "file"

\* the number of checkers that a visit of lint to the document has to start
ChecksDue(document) == IF document.open /\ Classifiable(document) THEN 1 ELSE 0

\* C13: activation starts exactly one checker for each open document that is
\* clean and classifiable and none for the others; afterwards every open and
\* save event runs the check of its document and every close event removes
\* the entry of its document
C13_SweepAndHandlers ==
    /\ ev.kind = "activate" =>
          /\ ev.uris = {d \in Uris : docs[d].open}
          /\ \A d \in Uris :
                Len(ev.started[d]) = ChecksDue(docs[d]) /\ tasks[d] = ev.started[d]
    /\ ev.kind \in {"open", "save"} =>
          \A d \in ev.uris :
              /\ Len(ev.started[d]) = ChecksDue(docs[d])
              /\ Len(tasks[d]) >= Len(ev.started[d])
              /\ SubSeq(tasks[d], Len(tasks[d]) - Len(ev.started[d]) + 1, Len(tasks[d]))
                    = ev.started[d]
    /\ ev.kind = "close" => \A d \in ev.uris : diagnostics[d] = NoEntry

\* C13: activation has found every document open, at least one clean shell
\* script and one dirty, and started a checker for the clean ones only
C13_Witness ==
    /\ ev.kind = "activate"
    /\ \A d \in Uris : docs[d].open
    /\ \E d \in Uris : Classifiable(docs[d]) /\ Len(tasks[d]) = 1
    /\ \E d \in Uris : docs[d].isDirty /\ tasks[d] = <<>>

\* C14: whenever the diagnostics computed from the checker's output are set
\* as the entry of a document, the document is not dirty, also when it was
\* edited while the checker was running
C14_SetOnlyWhenClean ==
    (ev.kind = "exit" /\ ev.lint = "fulfilled") =>
        \A d \in ev.uris : ~docs[d].isDirty

\* how lint ends and what the entry of its document is after a checker that
\* ran to its end with the given error: by the outcome of the parser alone
AfterExit(task, error, stderr, before) ==
    LET outcome == runInWorkspace(error, <<>>, stderr)
        d == parse(task, docs[task.uri], outcome.result.stderr)
    IN  IF outcome.settled = "rejected" \/ d.threw
        THEN [lint |-> "rejected", entry |-> before]
        ELSE [lint |-> "fulfilled", entry |-> Entry(d.value)]

\* C15: a checker that exits with a non-zero code resolves the runner with
\* that code and the captured output, without a log, and lint parses stderr
\* and sets the entry exactly as it does for exit code 0
C15_NonZeroExitResolves ==
    (ev.kind = "exit" /\ ev.error = ExitError) =>
        /\ ev.settled = "resolved" /\ ~ev.logged
        /\ runInWorkspace(ev.error, <<>>, ev.stderr).result
              = [stdout |-> <<>>, stderr |-> ev.stderr, exitCode |-> ev.error.code]
        /\ \A d \in ev.uris :
              [lint |-> ev.lint, entry |-> diagnostics[d]]
                  = AfterExit(ev.task, NoError, ev.stderr, ev.before)
        /\ ev.lint = "fulfilled" =>
              \A d \in ev.uris :
                  diagnostics[d] = Entry(DiagnosticSetOf(ev.task, ev.stderr))

\* C15: a checker has exited with a non-zero code and an error at line 1,
\* and the entry of its document holds the diagnostic of that error
C15_Witness ==
    /\ ev.kind = "exit" /\ ev.error = ExitError /\ ev.lint = "fulfilled"
    /\ \E d \in ev.uris :
          /\ diagnostics[d] # NoEntry
          /\ Len(diagnostics[d].items) = 1
          /\ diagnostics[d].items[1].range.start.line = 0

\* C16: an open or save event of a document that is dirty or does not have
\* the shell-script language tag starts no checker and changes no entry
C16_NoDialectNoChange ==
    [][(/\ ev'.kind \in {"open", "save"}
        /\ \A d \in ev'.uris :
              docs'[d].isDirty \/ docs'[d].languageId # "shellscript")
          => (diagnostics' = diagnostics /\ tasks' = tasks)]_vars

\* C16: a document whose entry holds diagnostics has been opened dirty, or
\* saved as plain text while another entry holds diagnostics, and nothing
\* was started
C16_Witness ==
    /\ ev.kind \in {"open", "save"}
    /\ \E d \in ev.uris :
          /\ docs[d].isDirty \/ docs[d].languageId # "shellscript"
          /\ ev.started[d] = <<>>
          /\ \E e \in Uris : diagnostics[e] # NoEntry /\ diagnostics[e].items # <<>>
          /\ docs[d].isDirty => (diagnostics[d] # NoEntry /\ diagnostics[d].items # <<>>)

\* a checker of document d has ended
Ended(d) == ev.kind = "exit" /\ ev.uris = {d}

\* the checker that has ended was started and exited with an exit code, and
\* the parser has made a diagnostic set of its output
RanToDiagnosticSet ==
    /\ ev.error \in {NoError, ExitError}
    /\ ~parse(ev.task, docs[ev.task.uri], ev.stderr).threw

\* an open or save event of a clean shell script on disk has started one
\* checker, which is now the last of the running checkers of the document
StartsWhenDue ==
    ev.kind \in {"open", "save"} =>
        \A d \in ev.uris :
            Classifiable(docs[d]) =>
                /\ Len(ev.started[d]) = 1
                /\ tasks[d] # <<>>
                /\ tasks[d][Len(tasks[d])] = ev.started[d][1]

\* a checker that ran to a diagnostic set has made it the entry of its document
SetsWhenRan(d) ==
    (Ended(d) /\ RanToDiagnosticSet) =>
        diagnostics[d] = Entry(DiagnosticSetOf(ev.task, ev.stderr))

Dialects == {"bash", "zsh", "sh"}

\* C18: every checker started is [dialect, "-n", path of the document] with
\* nothing written to stdin, an open or save event starts at most one and the
\* sweep at most one for each document; the entry set when the checker ends
\* is what the grammar of the same dialect makes of its stderr, and every
\* diagnostic in it has that dialect as its source
C18_OneDialectThroughout ==
    /\ ev.kind \in LintKinds =>
          /\ \A d \in Uris :
                /\ Len(ev.started[d]) <= 1
                /\ d \notin ev.uris => ev.started[d] = <<>>
                /\ \A k \in 1..Len(ev.started[d]) :
                      /\ ev.started[d][k].argv[1] \in Dialects
                      /\ ev.started[d][k].argv
                            = <<ev.started[d][k].argv[1], "-n", docs[d].fileName>>
                      /\ ~ev.started[d][k].stdin
          /\ ev.kind \in {"open", "save"} => InFlight(ev.started) <= 1
    /\ (ev.kind = "exit" /\ ev.lint = "fulfilled") =>
          \A d \in ev.uris :
              LET dialect == ev.task.argv[1]
                  set == outputToDiagnostics(docs[d], ev.stderr, patternOf(dialect), dialect)
              IN  /\ diagnostics[d] = Entry(set.value)
                  /\ \A k \in 1..Len(diagnostics[d].items) :
                        diagnostics[d].items[k].source = dialect

\* C18: zsh -n has ended for a document with an error in the format of zsh,
\* and the entry of the document holds its diagnostic, with the source zsh
C18_Witness ==
    /\ ev.kind = "exit" /\ ev.lint = "fulfilled"
    /\ ev.task.argv = <<"zsh", "-n", docs[ev.task.uri].fileName>>
    /\ \E d \in ev.uris :
          /\ diagnostics[d] # NoEntry
          /\ Len(diagnostics[d].items) = 1
          /\ diagnostics[d].items[1].source = "zsh"

\* two lint calls of the same open document were suspended together, the
\* step before ended one of them, which set the entry, and this step has
\* ended the other, which set the entry too: both checks have completed
BothCompleted(d) ==
    /\ Ended(d) /\ ev.lint = "fulfilled"
    /\ ev.prev # NoCheck
    /\ tasks[d] = <<>>
    /\ docs[d].open

\* the call that has just ended was started before the one that ended in the
\* step before
EarlierFinishedLast == ev.index < ev.prev.index

\* C19, as claimed: when two overlapping checks of an open document have both
\* completed, the entry is the diagnostic set of the check that was started
\* later, in whichever order they ended
C19_LaterSaveWins_AsClaimed ==
    \A d \in Uris :
        BothCompleted(d) =>
            diagnostics[d] = IF EarlierFinishedLast THEN ev.before
                             ELSE Entry(DiagnosticSetOf(ev.task, ev.stderr))

\* C19: when two overlapping checks of an open document have both completed,
\* the entry is the diagnostic set of the check whose checker ended last,
\* whether it was started by the earlier or by the later save
C19_LastToFinishWins ==
    \A d \in Uris :
        BothCompleted(d) =>
            diagnostics[d] = Entry(DiagnosticSetOf(ev.task, ev.stderr))

\* C19: the check started by the later save ended first, the one started by
\* the earlier save ended last with another result, and the entry holds the
\* result of the earlier save
C19_Witness ==
    \E d \in Uris :
        /\ BothCompleted(d) /\ EarlierFinishedLast
        /\ diagnostics[d] # ev.before
        /\ diagnostics[d] = Entry(DiagnosticSetOf(ev.task, ev.stderr))

\* checks of two documents do not wait for each other: while a checker of a
\* runs, a save of b can be handled and a checker of b can end
NoWaiting ==
    \A a \in Uris : \A b \in Uris \ {a} :
        tasks[a] # <<>> =>
            /\ (docs[b].open /\ InFlight(tasks) < MaxInFlight)
                    => ENABLED onDidSaveTextDocument(b)
            /\ tasks[b] # <<>> => ENABLED execFileCallback(b, 1, NoError, <<>>)

\* C20: the end of a check of one document changes no entry of another
\* document, and a check in flight for one document delays neither the start
\* nor the end of a check of another
C20_ChecksIndependent ==
    /\ []NoWaiting
    /\ [][ev'.kind = "exit" =>
              \A d \in Uris \ ev'.uris : diagnostics'[d] = diagnostics[d]]_vars

\* C20: a check of one document has ended and set its entry while a checker
\* of another document, whose entry holds diagnostics, is still running
C20_Witness ==
    /\ ev.kind = "exit" /\ ev.lint = "fulfilled"
    /\ \E a \in Uris \ ev.uris :
          /\ tasks[a] # <<>>
          /\ diagnostics[a] # NoEntry /\ diagnostics[a].items # <<>>

====
